---- MODULE Spec2Model ----
(***************************************************************************)
(* The Gummy streaming session of st/src/gummy.rs: the phase-typed session *)
(* Gummy<Closed | Connected | Converting | Finished>, its control frames,  *)
(* the inbound event stream and the result accumulator.                    *)
(*                                                                         *)
(* The blocking calls (Connected::start, Converting::receive,              *)
(* Converting::finish) are split at their await on reader.next(): one      *)
(* action enters the call, one action is one read of the stream.  The      *)
(* transport peer (the service) is the environment: it makes the next      *)
(* frame ready, fails or closes the stream.  The reader shows the session  *)
(* one frame at a time, so the stream is modelled by its next item.        *)
(***************************************************************************)
EXTENDS Integers, Sequences, FiniteSets, TLC

(* ---------------------------- bounds ----------------------------------- *)
\* number of tasks (StartMessage::new calls) one session may start
MaxTasks == 3
\* frames the service delivers over the life of the connection
MaxFrames == 4
\* binary audio frames the caller sends
MaxSends == 1
\* largest sentence_id the service puts in a result-generated event
MaxSid == 2

VARIABLES
    phase,          \* the type state of Gummy<State>, or Dropped / Panicked
    pc,             \* the call in flight: idle, start_wait, receive_wait, finish_wait
    start_message,  \* Connected::start's local StartMessage (its task id), 0 if none
    task_id,        \* Converting.task_id / Finished.task_id, 0 if none
    result,         \* Converting.result / Finished.result : Vec<Transcription>
    finished,       \* Converting.finished
    nextId,         \* the next fresh uuid
    sent,           \* frames written to the WSWriter, in order
    inbound,        \* the frame the WSReader yields at its next poll, or Pending
    chan,           \* the peer's side of the stream: open or closed
    delivered,      \* number of frames delivered so far
    ret,            \* what the last call returned
    acked,          \* history: task-started for the last StartMessage sent has been read
    seenFinished,   \* history: task-finished for task_id read since the last start
    expected,       \* history: the events of the task folded as receive folds them
    indices,        \* history: the sentence indices of the task's events read so far
    finishedTasks   \* history: the task ids whose task-finished event was read

vars == <<phase, pc, start_message, task_id, result, finished, nextId, sent,
          inbound, chan, delivered, ret, acked, seenFinished, expected, indices,
          finishedTasks>>

(* ---------------------------- frames ----------------------------------- *)
\* a JSON value that is absent or not a string
NoStr == "null"
\* an absent header.task_id
NoId == 0

TaskIds == 1..MaxTasks

EventKinds == {"task-started", "result-generated", "task-finished",
               "task-failed", "other"}

\* the (begin_time, end_time, text, sentence_end) of a transcription object
Contents == {"a", "b"}
BeginOf(c) == IF c = "a" THEN 0 ELSE 1
EndOf(c) == IF c = "a" THEN 1 ELSE 2
SentenceEndOf(c) == c = "b"
\* the text of the translation object that comes with content c
TransTextOf(c) == IF c = "a" THEN "ta" ELSE "tb"

\* where the event carries its translation:
\*   none   : no translation in payload.output
\*   object : payload.output.translation is an object with text
\*   list   : payload.output.translations is a list of one object with text
TranslationShapes == {"none", "object", "list"}

\* payload.output of an event; ok = FALSE: the transcription object or one
\* of its fields is missing
NoPayload == [ok |-> FALSE, sentence_id |-> 0, content |-> "a", translation |-> "none"]
Payloads ==
    {NoPayload} \cup
    [ok : {TRUE}, sentence_id : 0..MaxSid, content : Contents,
     translation : TranslationShapes]

BinaryFrame == [type |-> "binary", json |-> FALSE, event |-> NoStr,
                task_id |-> NoId, payload |-> NoPayload]
BadJsonFrame == [type |-> "text", json |-> FALSE, event |-> NoStr,
                 task_id |-> NoId, payload |-> NoPayload]
ErrItem == [type |-> "error", json |-> FALSE, event |-> NoStr,
            task_id |-> NoId, payload |-> NoPayload]
\* no frame is ready: reader.next() is pending
Pending == [type |-> "pending", json |-> FALSE, event |-> NoStr,
            task_id |-> NoId, payload |-> NoPayload]
\* reader.next() yielding None
EndOfStream == [type |-> "none", json |-> FALSE, event |-> NoStr,
                task_id |-> NoId, payload |-> NoPayload]

\* valid JSON: a header with or without event and task_id; the payload of a
\* frame whose header is not read to the end is never looked at
TextFrames ==
    [type : {"text"}, json : {TRUE}, event : EventKinds \ {"result-generated"},
     task_id : TaskIds \cup {NoId}, payload : {NoPayload}]
    \cup
    [type : {"text"}, json : {TRUE}, event : {NoStr, "result-generated"},
     task_id : {NoId}, payload : {NoPayload}]
    \cup
    [type : {"text"}, json : {TRUE}, event : {"result-generated"},
     task_id : TaskIds, payload : Payloads]

Frames == TextFrames \cup {BinaryFrame, BadJsonFrame}

Event(kind, id) == [type |-> "text", json |-> TRUE, event |-> kind,
                    task_id |-> id, payload |-> NoPayload]
ResultEvent(id, sid, c, shape) ==
    [type |-> "text", json |-> TRUE, event |-> "result-generated", task_id |-> id,
     payload |-> [ok |-> TRUE, sentence_id |-> sid, content |-> c, translation |-> shape]]

\* outbound frames
StartFrame(id) == [action |-> "run-task", task_id |-> id]
FinishFrame(id) == [action |-> "finish-task", task_id |-> id]
AudioFrame == [action |-> "binary", task_id |-> NoId]

(* ---------------------- parsing an inbound frame ----------------------- *)
\* Option::None of translated_text
None == "None"

\* What the three header reads of a text frame do: serde_json::from_str(..)?,
\* ["header"]["event"].as_str().ok_or_else(..)?, and
\* ["header"]["task_id"].as_str().expect(..), in that order.
HeaderOutcome(f) ==
    IF ~f.json THEN "Err"
    ELSE IF f.event = NoStr THEN "Err"
    ELSE IF f.task_id = NoId THEN "Panic"
    ELSE "Ok"

\* receive: response["payload"]["output"]["translation"].as_object()
TranslationReceive(p) ==
    IF p.translation = "object" THEN TransTextOf(p.content) ELSE None

\* finish: response["payload"]["output"]["translations"][0].as_object()
TranslationFinish(p) ==
    IF p.translation = "list" THEN TransTextOf(p.content) ELSE None

\* the four values read from the event
Transcription(p, translated_text) ==
    [begin_time |-> BeginOf(p.content), end_time |-> EndOf(p.content),
     text |-> p.content, translated_text |-> translated_text]

\* the Some(transcription) arm: the four assignments to the entry
Overwrite(old, new) ==
    [old EXCEPT !.text = new.text, !.begin_time = new.begin_time,
                !.end_time = new.end_time, !.translated_text = new.translated_text]

\* a fold that pushes whatever the index: C11 tells it from Apply
ApplyPush(res, sentence_id, new) == Append(res, new)

\* match self.state.result.get_mut(sentence_id as usize) { Some => .., None => push }
Apply(res, sentence_id, new) ==
    IF sentence_id < Len(res)
    THEN [res EXCEPT ![sentence_id + 1] = Overwrite(res[sentence_id + 1], new)]
    ELSE Append(res, new)

\* the result-generated arm of receive
FoldReceive(res, p) ==
    Apply(res, p.sentence_id, Transcription(p, TranslationReceive(p)))

\* the result-generated arm of finish
FoldFinish(res, p) ==
    Apply(res, p.sentence_id, Transcription(p, TranslationFinish(p)))

(* ------------------------- the transport -------------------------------- *)
\* reader.next().await is ready: a frame is buffered, or the stream has ended
CanRead == inbound /= Pending \/ chan = "closed"

\* what reader.next().await yields
NextItem == IF inbound /= Pending THEN inbound ELSE EndOfStream

\* writer.send(..).await succeeds while the connection is up
WriterOk == chan = "open"

\* the session value is gone after this step
Dropping == phase' \in {"Dropped", "Panicked"}

\* the transport after a step of the session that made `reads` calls of
\* reader.next(); dropping the session drops its reader and writer, which
\* closes the connection
Transport(reads) ==
    /\ inbound' = IF Dropping \/ reads = 1 THEN Pending ELSE inbound
    /\ chan' = IF Dropping THEN "closed" ELSE chan

\* the task id of the last StartMessage written, 0 if none
LastStartId ==
    LET starts == {i \in DOMAIN sent : sent[i].action = "run-task"}
    IN  IF starts = {} THEN 0
        ELSE sent[CHOOSE i \in starts : \A j \in starts : j <= i].task_id

\* history: the frame read is the task-started event of the last StartMessage
Ack(m) ==
    \/ acked
    \/ /\ m.type = "text" /\ HeaderOutcome(m) = "Ok"
       /\ m.event = "task-started" /\ m.task_id = LastStartId

Returned(op, res) == [op |-> op, res |-> res]

\* history: no sentence index seen yet
NoIndices == [seen |-> {}, shape |-> "increasing"]

\* history: the sentence indices are not recorded in this behaviour
Unrecorded == [seen |-> {}, shape |-> "unrecorded"]

\* history: the indices at the start of a task, and after the session is gone
Forget(ix) == IF ix.shape = "unrecorded" THEN ix ELSE NoIndices

\* history: the sentence indices after one more, and whether their sequence
\* is strictly increasing, or strictly increasing and then repeating indices
\* already seen, or neither (other: the indices are then forgotten)
Note(ix, i) ==
    IF ix.shape \in {"other", "unrecorded"} THEN ix
    ELSE IF i \in ix.seen THEN [seen |-> ix.seen, shape |-> "repeating"]
    ELSE IF ix.shape = "increasing" /\ \A j \in ix.seen : j < i
    THEN [seen |-> ix.seen \cup {i}, shape |-> "increasing"]
    ELSE [seen |-> {}, shape |-> "other"]

\* history: the indices after the read of m, which counts if m is a
\* result-generated event of the session's task that the fold applies
Noted(m) ==
    IF /\ m.type = "text" /\ HeaderOutcome(m) = "Ok"
       /\ m.event = "result-generated" /\ m.task_id = task_id /\ m.payload.ok
    THEN Note(indices, m.payload.sentence_id)
    ELSE indices

\* history: no task-finished event read yet on this connection
NoTasks == [on |-> TRUE, ids |-> {}]

\* history: the task-finished events are not recorded in this behaviour
UnrecordedTasks == [on |-> FALSE, ids |-> {}]

\* history: the task ids after the read of m, which counts if m is a
\* task-finished event, of whatever task
Ended(m) ==
    IF /\ finishedTasks.on
       /\ m.type = "text" /\ HeaderOutcome(m) = "Ok" /\ m.event = "task-finished"
    THEN [finishedTasks EXCEPT !.ids = @ \cup {m.task_id}]
    ELSE finishedTasks

\* the call returned Err with self moved into it, or it panicked: the session
\* value is dropped
Drop(op, res) ==
    /\ phase' = IF res = "Panic" THEN "Panicked" ELSE "Dropped"
    /\ pc' = "idle"
    /\ start_message' = 0
    /\ task_id' = 0
    /\ result' = <<>>
    /\ finished' = FALSE
    /\ ret' = Returned(op, res)
    /\ seenFinished' = FALSE
    /\ expected' = <<>>

New ==
    /\ phase = "Closed"
    /\ pc = "idle"
    /\ start_message = 0
    /\ task_id = 0
    /\ result = <<>>
    /\ finished = FALSE
    /\ nextId = 1
    /\ sent = <<>>
    /\ inbound = Pending
    /\ chan = "closed"
    /\ delivered = 0
    /\ ret = Returned("new", "Ok")
    /\ acked = FALSE
    /\ seenFinished = FALSE
    /\ expected = <<>>

\* the sentence indices are a history that only SpecIndices records, the
\* finished tasks one that only SpecTasks records
Init == New /\ indices = Unrecorded /\ finishedTasks = UnrecordedTasks

InitIndices == New /\ indices = NoIndices /\ finishedTasks = UnrecordedTasks

InitTasks == New /\ indices = Unrecorded /\ finishedTasks = NoTasks

(* ------------------------- Gummy<Closed> -------------------------------- *)
\* Gummy::close (impl Gummy, that is Gummy<Closed>)
Close ==
    /\ phase = "Closed" /\ pc = "idle"
    /\ ret' = Returned("close", "Ok")
    /\ UNCHANGED <<phase, pc, start_message, task_id, result, finished, nextId, sent,
                   inbound, chan, delivered, acked, seenFinished, expected, indices,
                   finishedTasks>>

\* Gummy<Closed>::connect: the handshake succeeds or fails
Connect ==
    /\ phase = "Closed" /\ pc = "idle"
    /\ \E ok \in BOOLEAN :
          IF ok
          THEN /\ phase' = "Connected"
               /\ chan' = "open"
               /\ ret' = Returned("connect", "Ok")
          ELSE /\ phase' = "Dropped"
               /\ chan' = chan
               /\ ret' = Returned("connect", "Err")
    /\ UNCHANGED <<pc, start_message, task_id, result, finished, nextId, sent,
                   inbound, delivered, acked, seenFinished, expected, indices,
                   finishedTasks>>

(* ------------------------ Gummy<Connected> ------------------------------ *)
\* a Converting state that keeps the result of the state before it: C20
\* tells it from EnterConverting
EnterConvertingKeeps(id) ==
    /\ phase' = "Converting"
    /\ pc' = "idle"
    /\ task_id' = id
    /\ result' = result
    /\ finished' = FALSE
    /\ seenFinished' = FALSE
    /\ expected' = <<>>
    /\ ret' = Returned("start", "Ok")

\* the Converting state start builds once its loop is left
EnterConverting(id) ==
    /\ phase' = "Converting"
    /\ pc' = "idle"
    /\ task_id' = id
    /\ result' = <<>>
    /\ finished' = FALSE
    /\ seenFinished' = FALSE
    /\ expected' = <<>>
    /\ ret' = Returned("start", "Ok")

\* Gummy<Connected>::start up to its first reader.next(): StartMessage::new
\* and writer.send(..).await?
StartConnected ==
    /\ phase = "Connected" /\ pc = "idle"
    /\ nextId <= MaxTasks
    /\ nextId' = nextId + 1
    /\ IF WriterOk
       THEN /\ sent' = Append(sent, StartFrame(nextId))
            /\ start_message' = nextId
            /\ pc' = "start_wait"
            /\ UNCHANGED <<phase, task_id, result, finished, ret, seenFinished, expected>>
       ELSE /\ sent' = sent
            /\ Drop("start", "Err")
    /\ acked' = FALSE
    /\ indices' = Forget(indices)
    /\ finishedTasks' = finishedTasks
    /\ Transport(0)
    /\ UNCHANGED delivered

\* a start loop that returns an error on the task-failed event of its task:
\* C26 tells it from StartWaitStep
StartWaitStepFails ==
    /\ pc = "start_wait" /\ CanRead
    /\ LET m == NextItem IN
       /\ acked' = Ack(m)
       /\ IF m.type = "none"
          THEN EnterConverting(start_message) /\ start_message' = 0
          ELSE IF m.type = "error"
          THEN Drop("start", "Err")
          ELSE IF m.type = "text"
          THEN IF HeaderOutcome(m) /= "Ok"
               THEN Drop("start", HeaderOutcome(m))
               ELSE IF m.event = "task-started" /\ m.task_id = start_message
               THEN EnterConverting(start_message) /\ start_message' = 0
               ELSE IF m.event = "task-failed" /\ m.task_id = start_message
               THEN Drop("start", "Err")
               ELSE UNCHANGED <<phase, pc, start_message, task_id, result, finished,
                                ret, seenFinished, expected>>
          ELSE UNCHANGED <<phase, pc, start_message, task_id, result, finished,
                           ret, seenFinished, expected>>
    /\ Transport(1)
    /\ indices' = IF Dropping THEN Forget(indices) ELSE Noted(NextItem)
    /\ finishedTasks' = Ended(NextItem)
    /\ UNCHANGED <<nextId, sent, delivered>>

\* one pass of Connected::start's while-let loop, and what follows the loop
StartWaitStep ==
    /\ pc = "start_wait" /\ CanRead
    /\ LET m == NextItem IN
       /\ acked' = Ack(m)
       /\ IF m.type = "none"
          THEN EnterConverting(start_message) /\ start_message' = 0
          ELSE IF m.type = "error"
          THEN Drop("start", "Err")
          ELSE IF m.type = "text"
          THEN IF HeaderOutcome(m) /= "Ok"
               THEN Drop("start", HeaderOutcome(m))
               ELSE IF m.event = "task-started" /\ m.task_id = start_message
               THEN EnterConverting(start_message) /\ start_message' = 0
               ELSE UNCHANGED <<phase, pc, start_message, task_id, result, finished,
                                ret, seenFinished, expected>>
          ELSE UNCHANGED <<phase, pc, start_message, task_id, result, finished,
                           ret, seenFinished, expected>>
    /\ Transport(1)
    /\ indices' = IF Dropping THEN Forget(indices) ELSE Noted(NextItem)
    /\ finishedTasks' = Ended(NextItem)
    /\ UNCHANGED <<nextId, sent, delivered>>

(* ------------------------ Gummy<Converting> ----------------------------- *)
AudioSent == Cardinality({i \in DOMAIN sent : sent[i].action = "binary"})

\* a send that a Connected session has too: C15 tells it from Send
SendConnected ==
    /\ phase \in {"Connected", "Converting"} /\ pc = "idle"
    /\ AudioSent < MaxSends
    /\ IF WriterOk
       THEN /\ sent' = Append(sent, AudioFrame)
            /\ ret' = Returned("send", "Ok")
       ELSE /\ sent' = sent
            /\ ret' = Returned("send", "Err")
    /\ UNCHANGED <<phase, pc, start_message, task_id, result, finished, nextId,
                   inbound, chan, delivered, acked, seenFinished, expected, indices,
                   finishedTasks>>

\* Gummy<Converting>::send
Send ==
    /\ phase = "Converting" /\ pc = "idle"
    /\ AudioSent < MaxSends
    /\ IF WriterOk
       THEN /\ sent' = Append(sent, AudioFrame)
            /\ ret' = Returned("send", "Ok")
       ELSE /\ sent' = sent
            /\ ret' = Returned("send", "Err")
    /\ UNCHANGED <<phase, pc, start_message, task_id, result, finished, nextId,
                   inbound, chan, delivered, acked, seenFinished, expected, indices,
                   finishedTasks>>

\* a receive that goes on to read whatever finished is: C14 tells it from
\* ReceiveCall
ReceiveCallReads ==
    /\ phase = "Converting" /\ pc = "idle"
    /\ pc' = "receive_wait"
    /\ UNCHANGED <<phase, start_message, task_id, result, finished, nextId, sent,
                   inbound, chan, delivered, ret, acked, seenFinished, expected,
                   indices, finishedTasks>>

\* Gummy<Converting>::receive up to its reader.next(): the finished check
ReceiveCall ==
    /\ phase = "Converting" /\ pc = "idle"
    /\ IF finished
       THEN /\ ret' = Returned("receive", "Ok")
            /\ pc' = pc
       ELSE /\ pc' = "receive_wait"
            /\ ret' = ret
    /\ UNCHANGED <<phase, start_message, task_id, result, finished, nextId, sent,
                   inbound, chan, delivered, acked, seenFinished, expected, indices,
                   finishedTasks>>

\* receive returns Err(..): &mut self, the session stays as it is
ReceiveErr ==
    /\ pc' = "idle"
    /\ ret' = Returned("receive", "Err")
    /\ UNCHANGED <<phase, start_message, task_id, result, finished, seenFinished, expected>>

\* a receive that does not set finished on task-finished: C24 tells it from
\* ReceiveOk
ReceiveOkUnmarked(res, fin, exp) ==
    /\ pc' = "idle"
    /\ result' = res
    /\ finished' = finished
    /\ seenFinished' = (seenFinished \/ (fin /\ ~finished))
    /\ expected' = exp
    /\ ret' = Returned("receive", "Ok")
    /\ UNCHANGED <<phase, start_message, task_id>>

\* receive returns Ok(self.state.result.clone())
ReceiveOk(res, fin, exp) ==
    /\ pc' = "idle"
    /\ result' = res
    /\ finished' = fin
    /\ seenFinished' = (seenFinished \/ (fin /\ ~finished))
    /\ expected' = exp
    /\ ret' = Returned("receive", "Ok")
    /\ UNCHANGED <<phase, start_message, task_id>>

\* Gummy<Converting>::receive from its reader.next() on: the one frame it reads
ReceiveStep ==
    /\ pc = "receive_wait" /\ CanRead
    /\ LET m == NextItem IN
       /\ acked' = Ack(m)
       /\ IF m.type = "error"
          THEN ReceiveErr
          ELSE IF m.type = "text"
          THEN IF HeaderOutcome(m) = "Err"
               THEN ReceiveErr
               ELSE IF HeaderOutcome(m) = "Panic"
               THEN Drop("receive", "Panic")
               ELSE IF m.event = "result-generated" /\ m.task_id = task_id
               THEN IF m.payload.ok
                    THEN ReceiveOk(FoldReceive(result, m.payload), finished,
                                   FoldReceive(expected, m.payload))
                    ELSE Drop("receive", "Panic")
               ELSE IF m.event = "task-finished" /\ m.task_id = task_id
               THEN ReceiveOk(result, TRUE, expected)
               ELSE ReceiveOk(result, finished, expected)
          ELSE ReceiveOk(result, finished, expected)
    /\ Transport(1)
    /\ indices' = IF Dropping THEN Forget(indices) ELSE Noted(NextItem)
    /\ finishedTasks' = Ended(NextItem)
    /\ UNCHANGED <<nextId, sent, delivered>>

\* the Finished state finish builds once its loop is left or skipped
EnterFinished(res, seen, exp) ==
    /\ phase' = "Finished"
    /\ pc' = "idle"
    /\ result' = res
    /\ finished' = FALSE
    /\ seenFinished' = seen
    /\ expected' = exp
    /\ ret' = Returned("finish", "Ok")
    /\ UNCHANGED <<start_message, task_id>>

\* a finish that sends its FinishMessage and reads whatever finished is:
\* C23 tells it from FinishCall
FinishCallSends ==
    /\ phase = "Converting" /\ pc = "idle"
    /\ IF WriterOk
       THEN /\ sent' = Append(sent, FinishFrame(task_id))
            /\ pc' = "finish_wait"
            /\ UNCHANGED <<phase, start_message, task_id, result, finished, ret,
                           seenFinished, expected>>
       ELSE /\ sent' = sent
            /\ Drop("finish", "Err")
    /\ Transport(0)
    /\ indices' = IF Dropping THEN Forget(indices) ELSE indices
    /\ finishedTasks' = finishedTasks
    /\ UNCHANGED <<nextId, delivered, acked>>

\* Gummy<Converting>::finish up to its first reader.next(): the finished
\* check, FinishMessage::new and writer.send(..).await?
FinishCall ==
    /\ phase = "Converting" /\ pc = "idle"
    /\ IF finished
       THEN /\ EnterFinished(result, seenFinished, expected)
            /\ sent' = sent
       ELSE IF WriterOk
       THEN /\ sent' = Append(sent, FinishFrame(task_id))
            /\ pc' = "finish_wait"
            /\ UNCHANGED <<phase, start_message, task_id, result, finished, ret,
                           seenFinished, expected>>
       ELSE /\ sent' = sent
            /\ Drop("finish", "Err")
    /\ Transport(0)
    /\ indices' = IF Dropping THEN Forget(indices) ELSE indices
    /\ finishedTasks' = finishedTasks
    /\ UNCHANGED <<nextId, delivered, acked>>

\* a finish loop that does not compare the task id of the events it reads:
\* C25 tells it from FinishStep
FinishStepAnyTask ==
    /\ pc = "finish_wait" /\ CanRead
    /\ LET m == NextItem IN
       /\ acked' = Ack(m)
       /\ IF m.type = "none"
          THEN EnterFinished(result, seenFinished, expected)
          ELSE IF m.type = "error"
          THEN Drop("finish", "Err")
          ELSE IF m.type = "text"
          THEN IF HeaderOutcome(m) /= "Ok"
               THEN Drop("finish", HeaderOutcome(m))
               ELSE IF m.event = "result-generated"
               THEN IF m.payload.ok
                    THEN /\ result' = FoldFinish(result, m.payload)
                         /\ expected' = FoldReceive(expected, m.payload)
                         /\ UNCHANGED <<phase, pc, start_message, task_id, finished,
                                        ret, seenFinished>>
                    ELSE Drop("finish", "Panic")
               ELSE IF m.event = "task-finished"
               THEN EnterFinished(result, TRUE, expected)
               ELSE UNCHANGED <<phase, pc, start_message, task_id, result, finished,
                                ret, seenFinished, expected>>
          ELSE UNCHANGED <<phase, pc, start_message, task_id, result, finished,
                           ret, seenFinished, expected>>
    /\ Transport(1)
    /\ indices' = IF Dropping THEN Forget(indices) ELSE Noted(NextItem)
    /\ finishedTasks' = Ended(NextItem)
    /\ UNCHANGED <<nextId, sent, delivered>>

\* one pass of finish's while-let loop, and what follows the loop
FinishStep ==
    /\ pc = "finish_wait" /\ CanRead
    /\ LET m == NextItem IN
       /\ acked' = Ack(m)
       /\ IF m.type = "none"
          THEN EnterFinished(result, seenFinished, expected)
          ELSE IF m.type = "error"
          THEN Drop("finish", "Err")
          ELSE IF m.type = "text"
          THEN IF HeaderOutcome(m) /= "Ok"
               THEN Drop("finish", HeaderOutcome(m))
               ELSE IF m.event = "result-generated" /\ m.task_id = task_id
               THEN IF m.payload.ok
                    THEN /\ result' = FoldFinish(result, m.payload)
                         /\ expected' = FoldReceive(expected, m.payload)
                         /\ UNCHANGED <<phase, pc, start_message, task_id, finished,
                                        ret, seenFinished>>
                    ELSE Drop("finish", "Panic")
               ELSE IF m.event = "task-finished" /\ m.task_id = task_id
               THEN EnterFinished(result, TRUE, expected)
               ELSE UNCHANGED <<phase, pc, start_message, task_id, result, finished,
                                ret, seenFinished, expected>>
          ELSE UNCHANGED <<phase, pc, start_message, task_id, result, finished,
                           ret, seenFinished, expected>>
    /\ Transport(1)
    /\ indices' = IF Dropping THEN Forget(indices) ELSE Noted(NextItem)
    /\ finishedTasks' = Ended(NextItem)
    /\ UNCHANGED <<nextId, sent, delivered>>

(* ------------------------- Gummy<Finished> ------------------------------ *)
\* the task_id Finished::start gives the Converting state it builds
RestartTaskId(message) == task_id

\* Gummy<Finished>::start
StartFinished ==
    /\ phase = "Finished" /\ pc = "idle"
    /\ nextId <= MaxTasks
    /\ nextId' = nextId + 1
    /\ IF WriterOk
       THEN /\ sent' = Append(sent, StartFrame(nextId))
            /\ EnterConverting(RestartTaskId(nextId))
            /\ start_message' = start_message
       ELSE /\ sent' = sent
            /\ Drop("start", "Err")
    /\ acked' = FALSE
    /\ indices' = Forget(indices)
    /\ finishedTasks' = finishedTasks
    /\ Transport(0)
    /\ UNCHANGED delivered

\* Gummy<Finished>::get_result
GetResult ==
    /\ phase = "Finished" /\ pc = "idle"
    /\ ret' = Returned("get_result", "Ok")
    /\ UNCHANGED <<phase, pc, start_message, task_id, result, finished, nextId, sent,
                   inbound, chan, delivered, acked, seenFinished, expected, indices,
                   finishedTasks>>

(* --------------------------- the service -------------------------------- *)
Live == phase \in {"Connected", "Converting", "Finished"}

\* the service sends one more frame
Deliver ==
    /\ Live /\ chan = "open"
    /\ inbound = Pending
    /\ delivered < MaxFrames
    /\ \E f \in Frames : inbound' = f
    /\ delivered' = delivered + 1
    /\ UNCHANGED <<phase, pc, start_message, task_id, result, finished, nextId, sent,
                   chan, ret, acked, seenFinished, expected, indices, finishedTasks>>

\* the stream fails: the reader yields Some(Err(e)) and then ends
StreamError ==
    /\ Live /\ chan = "open"
    /\ inbound = Pending
    /\ inbound' = ErrItem
    /\ chan' = "closed"
    /\ UNCHANGED <<phase, pc, start_message, task_id, result, finished, nextId, sent,
                   delivered, ret, acked, seenFinished, expected, indices,
                   finishedTasks>>

\* the connection closes: the reader ends after the frame it holds
StreamClose ==
    /\ Live /\ chan = "open"
    /\ chan' = "closed"
    /\ UNCHANGED <<phase, pc, start_message, task_id, result, finished, nextId, sent,
                   inbound, delivered, ret, acked, seenFinished, expected, indices,
                   finishedTasks>>

Next ==
    \/ Close
    \/ Connect
    \/ StartConnected
    \/ StartWaitStep
    \/ Send
    \/ ReceiveCall
    \/ ReceiveStep
    \/ FinishCall
    \/ FinishStep
    \/ StartFinished
    \/ GetResult
    \/ Deliver
    \/ StreamError
    \/ StreamClose

Spec == Init /\ [][Next]_vars

\* the same program, with the history of sentence indices recorded
SpecIndices == InitIndices /\ [][Next]_vars

\* the same program, with the history of finished tasks recorded
SpecTasks == InitTasks /\ [][Next]_vars

\* the runtime polls a call that waits on reader.next() once the stream is ready
FairSpec ==
    /\ Spec
    /\ WF_vars(StartWaitStep)
    /\ WF_vars(ReceiveStep)
    /\ WF_vars(FinishStep)

(* ------------------------------ claims ---------------------------------- *)
Transcriptions ==
    [begin_time : {BeginOf(c) : c \in Contents}, end_time : {EndOf(c) : c \in Contents},
     text : Contents, translated_text : {TransTextOf(c) : c \in Contents} \cup {None}]

TypeOK ==
    /\ phase \in {"Closed", "Connected", "Converting", "Finished", "Dropped", "Panicked"}
    /\ pc \in {"idle", "start_wait", "receive_wait", "finish_wait"}
    /\ start_message \in 0..MaxTasks
    /\ task_id \in 0..MaxTasks
    /\ result \in Seq(Transcriptions) /\ Len(result) <= MaxFrames
    /\ expected \in Seq(Transcriptions) /\ Len(expected) = Len(result)
    /\ finished \in BOOLEAN /\ acked \in BOOLEAN /\ seenFinished \in BOOLEAN
    /\ nextId \in 1..(MaxTasks + 1)
    /\ inbound \in Frames \cup {ErrItem, Pending}
    /\ chan \in {"open", "closed"}
    /\ delivered \in 0..MaxFrames

\* the StartMessages written so far
StartsSent == Cardinality({i \in DOMAIN sent : sent[i].action = "run-task"})

\* the reader has nothing more to yield but None
StreamEnded == inbound = Pending /\ chan = "closed"

\* this step is a read, by a call waiting at p, of a well-formed event of the
\* session's task
ReadsTaskEvent(p, kind) ==
    /\ pc = p
    /\ inbound.type = "text" /\ HeaderOutcome(inbound) = "Ok"
    /\ inbound.event = kind /\ inbound.task_id = task_id
    /\ inbound' = Pending

\* C1: Connected::start returns a Converting session only after it has read
\* the task-started event of the StartMessage it sent; while it waits, the
\* frames it reads leave the session as it was (Connected, no task id, no
\* results); the session it returns holds that task id, an empty result and
\* finished = false.
C1_StartReturnsOnlyAfterAck ==
    /\ pc = "start_wait" =>
          /\ phase = "Connected" /\ task_id = NoId /\ result = <<>> /\ ~finished
          /\ start_message = LastStartId
    /\ (phase = "Converting" /\ StartsSent = 1 /\ ret = Returned("start", "Ok")) =>
          /\ acked
          /\ task_id = LastStartId /\ result = <<>> /\ ~finished

\* C2: when the stream ends while Connected::start waits for the
\* acknowledgement, start returns an error and the session is still
\* Connected; it does not return a Converting session.
C2_StartFailsOnClose ==
    [][(pc = "start_wait" /\ StreamEnded /\ pc' /= "start_wait")
          => (ret' = Returned("start", "Err") /\ phase' = "Connected")]_vars

\* C3: a binary audio frame is written only when the task-started event of
\* the last StartMessage written has been read, whether that task was
\* started from Connected or from Finished.
C3_AudioOnlyAfterAck ==
    [][(Len(sent') > Len(sent) /\ sent'[Len(sent')].action = "binary") => acked]_vars

\* C4: after every start the session's task_id is the id of the StartMessage
\* that start wrote, and no earlier StartMessage on the session carried it.
C4_TaskIdIsFreshId ==
    phase = "Converting" =>
        /\ task_id = LastStartId
        /\ \A i, j \in DOMAIN sent :
              (i < j /\ sent[i].action = "run-task" /\ sent[j].action = "run-task")
                  => sent[i].task_id /= sent[j].task_id
        /\ Cardinality({i \in DOMAIN sent :
                           sent[i].action = "run-task" /\ sent[i].task_id = task_id}) = 1

\* C5: when finish returns after the task-finished event, the result is the
\* fold, in arrival order, of every result-generated event of the task read
\* since start, the same whether receive or finish's drain read an event
\* (expected folds each event once, the way receive does).
C5_ResultIsFoldOfEvents ==
    (phase = "Finished" /\ seenFinished) => result = expected

\* C6: finish returns a Finished session only for a task whose task-finished
\* event was read; a stream that ends or fails during the drain makes finish
\* fail instead.
C6_FinishedOnlyAfterTaskFinished ==
    phase = "Finished" => seenFinished

\* C7: in a task started from Finished and acknowledged by the service, when
\* finish's drain reads the task-finished event that carries the id of that
\* task's StartMessage, finish returns the Finished session (it does not go
\* on waiting for an event with another task id).
C7_SecondTaskFinishes ==
    [][(/\ pc = "finish_wait" /\ StartsSent >= 2 /\ acked
        /\ inbound = Event("task-finished", LastStartId)
        /\ inbound' = Pending)
          => phase' = "Finished"]_vars

\* C8: a start or finish call in flight when the stream has ended or failed
\* returns, and what it returns is an error.
C8_BlockedCallReturnsError ==
    [][(/\ pc \in {"start_wait", "finish_wait"}
        /\ (StreamEnded \/ inbound = ErrItem)
        /\ <<pc, inbound, ret>>' /= <<pc, inbound, ret>>)
          => (pc' = "idle" /\ ret'.res = "Err")]_vars

\* C9: a result-generated update of the task whose sentence index is greater
\* than the length of the result is not stored: receive and finish leave the
\* result as it was.
C9_GapUpdateNotStored ==
    [][\A p \in {"receive_wait", "finish_wait"} :
          (/\ ReadsTaskEvent(p, "result-generated")
           /\ inbound.payload.ok
           /\ inbound.payload.sentence_id > Len(result))
              => result' = result]_vars

\* C10: a result-generated update of the task that carries no translation,
\* for a sentence index whose entry has a translation, overwrites begin time,
\* end time and text of the entry and leaves its translated text, in receive
\* and in finish.
C10_TranslationKept ==
    [][\A p \in {"receive_wait", "finish_wait"} :
          (/\ ReadsTaskEvent(p, "result-generated")
           /\ inbound.payload.ok
           /\ inbound.payload.translation = "none"
           /\ inbound.payload.sentence_id < Len(result)
           /\ result[inbound.payload.sentence_id + 1].translated_text /= None)
              => LET i == inbound.payload.sentence_id + 1
                     c == inbound.payload.content
                 IN  /\ Len(result') = Len(result)
                     /\ result'[i].translated_text = result[i].translated_text
                     /\ result'[i].begin_time = BeginOf(c)
                     /\ result'[i].end_time = EndOf(c)
                     /\ result'[i].text = c]_vars

\* C11: a result-generated event of the task whose sentence index equals the
\* length of the result appends exactly one entry (the length grows by one
\* and the earlier entries are unchanged); one whose sentence index is less
\* than the length overwrites that position only (the length and all the
\* other entries are unchanged). In receive and in finish alike.
C11_AppendOrOverwrite ==
    [][\A p \in {"receive_wait", "finish_wait"} :
          (ReadsTaskEvent(p, "result-generated") /\ inbound.payload.ok) =>
             LET i == inbound.payload.sentence_id
                 n == Len(result)
             IN  /\ i = n =>
                       /\ Len(result') = n + 1
                       /\ \A k \in 1..n : result'[k] = result[k]
                       /\ result'[n + 1].text = inbound.payload.content
                 /\ i < n =>
                       /\ Len(result') = n
                       /\ \A k \in 1..n : k /= i + 1 => result'[k] = result[k]
                       /\ result'[i + 1].text = inbound.payload.content]_vars

\* two entries were appended and receive is about to read an event of the
\* task that rewrites the first of them
C11_Witness ==
    /\ phase = "Converting" /\ pc = "receive_wait"
    /\ Len(result) = 2
    /\ inbound.type = "text" /\ HeaderOutcome(inbound) = "Ok"
    /\ inbound.event = "result-generated" /\ inbound.task_id = task_id
    /\ inbound.payload.ok /\ inbound.payload.sentence_id = 0
    /\ inbound.payload.content /= result[1].text

\* C12: while the sentence indices of the task's result-generated events are
\* strictly increasing and then repeat indices already seen, the length of
\* the result equals the number of distinct indices seen, and is never larger.
C12_LengthIsDistinctIndices ==
    indices.shape \in {"increasing", "repeating"} =>
        Len(result) = Cardinality(indices.seen)

\* C13: receive never waits for the service: a receive call that finds no
\* frame ready on an open stream returns the result as it is, so between the
\* call and its return nothing has to arrive.
C13_ReceiveNeverWaits ==
    pc = "receive_wait" => CanRead

\* C14: once receive has read the task-finished event of the task (finished
\* is true), a receive call reads no frame and returns the same result: it
\* never reaches reader.next(), and the result, finished and the frame
\* waiting in the stream are as they were.
C14_FinishedReceiveReadsNothing ==
    [][(phase = "Converting" /\ pc = "idle" /\ finished) =>
          /\ pc' /= "receive_wait"
          /\ (ret' /= ret /\ ret'.op = "receive") =>
                /\ ret'.res = "Ok"
                /\ inbound' = inbound /\ delivered' = delivered
                /\ result' = result /\ finished']_vars

\* receive has returned in a session whose task has finished, and a frame
\* waits unread in the stream
C14_Witness ==
    /\ phase = "Converting" /\ pc = "idle" /\ finished
    /\ ret = Returned("receive", "Ok")
    /\ inbound.type = "text" /\ inbound.event = "result-generated"
    /\ inbound.task_id = task_id
    /\ AudioSent = 1

\* this step writes a frame of the given action
Writes(action) ==
    /\ Len(sent') = Len(sent) + 1
    /\ sent'[Len(sent')].action = action

\* this step is the return of the given operation
Returns(op) == ret' /= ret /\ ret'.op = op

\* C15: an operation runs only in its phase: send, receive and finish only
\* on a Converting session, start only on a Connected or a Finished one,
\* connect only on a Closed one, get_result only on a Finished one, and each
\* only when no other call holds the session. In particular no audio is
\* written, and no send returns, while the session is Connected.
C15_OperationsInTheirPhase ==
    [][/\ (Writes("binary") \/ Returns("send")) =>
              (phase = "Converting" /\ pc = "idle")
       /\ (Writes("finish-task") \/ (pc /= "finish_wait" /\ Returns("finish"))) =>
              (phase = "Converting" /\ pc = "idle")
       /\ (pc /= "receive_wait" /\ (pc' = "receive_wait" \/ Returns("receive"))) =>
              (phase = "Converting" /\ pc = "idle")
       /\ (Writes("run-task") \/ (pc /= "start_wait" /\ Returns("start"))) =>
              (phase \in {"Connected", "Finished"} /\ pc = "idle")
       /\ Returns("connect") => (phase = "Closed" /\ pc = "idle")
       /\ Returns("get_result") => (phase = "Finished" /\ pc = "idle")
       /\ pc' = "start_wait" => phase' = "Connected"
       /\ pc' \in {"receive_wait", "finish_wait"} => phase' = "Converting"]_vars

\* every operation has run: two tasks were started, audio was sent in one of
\* them, and get_result has returned
C15_Witness ==
    /\ phase = "Finished" /\ ret = Returned("get_result", "Ok")
    /\ StartsSent = 2 /\ AudioSent = 1
    /\ Len(result) = 1

\* C16: close can be called in every phase (Closed, Connected, Converting,
\* Finished) of a session no call holds, and leads to the Closed phase with
\* the connection released.
C16_CloseInEveryPhase ==
    (pc = "idle" /\ phase \in {"Closed", "Connected", "Converting", "Finished"}) =>
        ENABLED Close

\* a text frame that is not JSON, or lacks header.event or header.task_id,
\* or is a result-generated event of the task without its transcription
\* fields
Malformed(m) ==
    /\ m.type = "text"
    /\ \/ HeaderOutcome(m) /= "Ok"
       \/ m.event = "result-generated" /\ m.task_id = task_id /\ ~m.payload.ok

\* C17: a malformed or field-incomplete frame read by receive makes that one
\* call return an error; the frame is dropped, the result, the task id,
\* finished and the phase are as before, and the session can go on receiving.
C17_MalformedFrameIsAnError ==
    [][(pc = "receive_wait" /\ Malformed(inbound) /\ inbound' = Pending) =>
          /\ ret' = Returned("receive", "Err")
          /\ phase' = "Converting" /\ pc' = "idle"
          /\ task_id' = task_id /\ result' = result /\ finished' = finished]_vars

\* C18: a text frame whose event kind is none of the recognised ones is
\* ignored by start, receive and finish: the read changes neither the result,
\* finished, the task id nor the phase, and no error comes of it (start and
\* finish keep waiting, receive returns Ok).
C18_UnknownKindIgnored ==
    [][(/\ pc \in {"start_wait", "receive_wait", "finish_wait"}
        /\ inbound.type = "text" /\ inbound.json /\ inbound.event = "other"
        /\ inbound' = Pending) =>
          /\ phase' = phase /\ task_id' = task_id
          /\ result' = result /\ finished' = finished
          /\ pc' = IF pc = "receive_wait" THEN "idle" ELSE pc
          /\ ret' = IF pc = "receive_wait" THEN Returned("receive", "Ok") ELSE ret]_vars

\* C19: when start or finish returns an error, no part of the transition is
\* visible: the session is in the phase it had before the call (Connected or
\* Finished for start, Converting for finish), with its task id and its
\* result unchanged.
C19_FailedCallKeepsPhase ==
    [][((Returns("start") \/ Returns("finish")) /\ ret'.res = "Err") =>
          /\ phase' = phase
          /\ task_id' = task_id /\ result' = result]_vars

\* C20: start on a Finished session gives a Converting session with an empty
\* result and finished = false, whatever the result of the task before, on
\* the same reader and writer: the connection stays open, the frame waiting
\* in the stream still waits, and the frames written before stay written.
C20_RestartIsEmpty ==
    [][(phase = "Finished" /\ phase' = "Converting") =>
          /\ result' = <<>> /\ ~finished' /\ pc' = "idle"
          /\ ret' = Returned("start", "Ok")
          /\ chan = "open" /\ chan' = chan /\ inbound' = inbound
          /\ Writes("run-task") /\ SubSeq(sent', 1, Len(sent)) = sent]_vars

\* the second task has just been started, after a first one that was
\* acknowledged and sent audio, and a frame delivered before still waits
C20_Witness ==
    /\ phase = "Converting" /\ pc = "idle"
    /\ StartsSent = 2 /\ AudioSent = 1
    /\ ret = Returned("start", "Ok")
    /\ result = <<>> /\ ~finished
    /\ inbound.type = "text" /\ inbound.event = "result-generated"
    /\ delivered = MaxFrames

\* C21: finish folds a result-generated event of the task as receive does:
\* whatever the result so far and whether the event carries its translation
\* in one shape, in the other or not at all, the result after finish has read
\* the event is the one receive would have left (same begin, end, text and
\* translated text).
C21_FinishFoldsAsReceive ==
    [][(ReadsTaskEvent("finish_wait", "result-generated") /\ inbound.payload.ok) =>
          result' = FoldReceive(result, inbound.payload)]_vars

\* C22: no run-task frame is written while the task before it on the
\* connection is in flight: when a run-task frame is written after another
\* one, the task-finished event of the task that one started has been read.
C22_NoStartWhileInFlight ==
    [][(Writes("run-task") /\ StartsSent >= 1) =>
          LastStartId \in finishedTasks.ids]_vars

\* C23: finish on a session whose finished is true writes no frame, reads
\* none, and returns a Finished session with the result as it was; finish on
\* a session whose finished is false writes exactly one finish-task frame,
\* with the session's task id, before it reads (or fails on the write), and
\* writes nothing more while it reads.
C23_FinishSendsOnceUnlessFinished ==
    [][/\ (/\ phase = "Converting" /\ pc = "idle"
           /\ (Returns("finish") \/ pc' = "finish_wait" \/ Writes("finish-task"))) =>
             /\ IF finished
                THEN /\ sent' = sent /\ inbound' = inbound
                     /\ phase' = "Finished" /\ pc' = "idle"
                     /\ result' = result /\ task_id' = task_id
                     /\ ret' = Returned("finish", "Ok")
                ELSE \/ /\ sent' = Append(sent, FinishFrame(task_id))
                        /\ inbound' = inbound
                        /\ pc' = "finish_wait" /\ phase' = "Converting"
                        /\ result' = result
                     \/ /\ sent' = sent /\ ~WriterOk
                        /\ ret' = Returned("finish", "Err")
       /\ pc = "finish_wait" => sent' = sent]_vars

\* the finish-task frames written so far
FinishesSent == Cardinality({i \in DOMAIN sent : sent[i].action = "finish-task"})

\* finish has returned a Finished session with a result of two entries
\* without having written a finish-task frame: receive had read the
\* task-finished event before
C23_Witness ==
    /\ phase = "Finished" /\ ret = Returned("finish", "Ok")
    /\ FinishesSent = 0 /\ AudioSent = 1
    /\ Len(result) = 2

\* C24: once the task-finished event of the session's task has been read,
\* the result does not change until a new task is started: no receive,
\* finish or get_result changes an entry or the length.
C24_ResultFixedAfterTaskFinished ==
    [][(seenFinished /\ phase' \in {"Converting", "Finished"}) =>
          \/ result' = result
          \/ phase = "Finished" /\ phase' = "Converting"]_vars

\* get_result has returned the result of a task that finished after audio
\* was sent, while a later result-generated event of that task waits unread
C24_Witness ==
    /\ phase = "Finished" /\ seenFinished
    /\ ret = Returned("get_result", "Ok")
    /\ Len(result) = 1 /\ AudioSent = 1
    /\ inbound.type = "text" /\ inbound.event = "result-generated"
    /\ inbound.task_id = task_id /\ inbound.payload.ok

\* this step is a read, by a call waiting at p, of a well-formed event of
\* the given kind that carries the id of another task
ReadsOtherTaskEvent(p, kind) ==
    /\ pc = p
    /\ inbound.type = "text" /\ HeaderOutcome(inbound) = "Ok"
    /\ inbound.event = kind /\ inbound.task_id /= task_id
    /\ inbound' = Pending

\* C25: a result-generated or task-finished event whose task id is not the
\* session's has no effect in receive or finish: the result and finished are
\* unchanged, receive returns Ok with the result as it was, and finish keeps
\* waiting.
C25_OtherTaskEventsIgnored ==
    [][\A kind \in {"result-generated", "task-finished"} :
          /\ ReadsOtherTaskEvent("receive_wait", kind) =>
                /\ result' = result /\ finished' = finished
                /\ seenFinished' = seenFinished
                /\ phase' = phase /\ task_id' = task_id
                /\ pc' = "idle" /\ ret' = Returned("receive", "Ok")
          /\ ReadsOtherTaskEvent("finish_wait", kind) =>
                /\ result' = result /\ finished' = finished
                /\ seenFinished' = seenFinished
                /\ phase' = phase /\ task_id' = task_id
                /\ pc' = "finish_wait" /\ ret' = ret]_vars

\* finish waits with one entry in the result, and the frame it is about to
\* read is the task-finished event of another task
C25_Witness ==
    /\ phase = "Converting" /\ pc = "finish_wait"
    /\ Len(result) = 1
    /\ inbound.type = "text" /\ HeaderOutcome(inbound) = "Ok"
    /\ inbound.event = "task-finished" /\ inbound.task_id /= task_id

\* C26: a task-failed event, that of the awaited task included, does not end
\* the wait of start or of finish: the read changes no state of the session,
\* returns nothing, and the call goes on reading.
C26_TaskFailedDoesNotEndWait ==
    [][(/\ pc \in {"start_wait", "finish_wait"}
        /\ inbound.type = "text" /\ HeaderOutcome(inbound) = "Ok"
        /\ inbound.event = "task-failed"
        /\ inbound' = Pending) =>
          UNCHANGED <<phase, pc, start_message, task_id, result, finished, ret,
                      sent, chan>>]_vars

\* start waits for the acknowledgement of its second frame read, and the
\* frame it is about to read is the task-failed event of the task it started
C26_Witness ==
    /\ phase = "Connected" /\ pc = "start_wait"
    /\ delivered = 2
    /\ inbound = Event("task-failed", start_message)

====
